---- MODULE Spec2Model ----
(***************************************************************************)
(* Model of the i18n content pipeline of the Vue 3 demo:                   *)
(*   services/db.ts               languageDB (IndexedDB single-slot cache) *)
(*   services/languageService.ts  loadLanguage (cache, then CDN)           *)
(*   stores/language.ts           the Pinia language store                 *)
(* Every async function is cut at its await points; a call of the store    *)
(* occupies one slot of `calls` from its first statement to its return.    *)
(* localStorage is taken to be reliable; IndexedDB requests and the CDN    *)
(* may fail at every request.                                              *)
(***************************************************************************)
EXTENDS Integers, FiniteSets, Sequences, TLC

\* ---------------------------------------------------------------- bounds
NumCalls == 2

\* The number of caption calls made on one provider.
MaxCaptions == 3

Calls == 1..NumCalls

\* ------------------------------------------------------------- constants
Undefined == "undefined"

Null == "null"

DefaultLocale == "en"

supportedLocales == {"en", "es", "fr"}

defaultSections == {"common", "error", "footer"}

AllSections == defaultSections \cup {"dashboard", "settings"}

\* The section sets a CDN document may carry: the full document and a
\* partial one that lacks two baseline sections and "settings".
RemoteSectionSets == {AllSections, {"common", "dashboard"}}

\* uiSection arguments of setAndLoadLanguage (undefined, extra, baseline).
UiSections == {Undefined, "dashboard", "common"}

\* sectionName arguments of loadAdditionalSection.
SectionNames == {"dashboard", "settings"}

\* ------------------------------------------------------------- documents
\* A document is a function from section names to section values; the
\* section value <<l, s>> stands for the translated mapping of section s
\* in locale l.  The empty function is the JavaScript object {}.
EmptyDoc == <<>>

DocOf(l, S) == [s \in S |-> <<l, s>>]

RemoteDocs(l) == {DocOf(l, S) : S \in RemoteSectionSets}

\* The locale a non-empty document was written for.
LocaleOf(d) == d[CHOOSE s \in DOMAIN d : TRUE][1]

\* ----------------------------------------------------------------- state
VARIABLES
    currentLocale,      \* store state: currentLocale
    messages,           \* store state: messages
    isLoading,          \* store state: isLoading
    userLanguage,       \* localStorage entry 'user-language' (Null if unset)
    translations,       \* IndexedDB object store 'translations': key -> value
    calls,              \* the store calls in flight, one record per slot
    last,               \* the store call that returned last (history)
    previous,           \* operation and locale of the call before it (history)
    translationStats,   \* caption provider: translationStats
    captioned           \* caption provider: the last call and its result (history)

providerVars == <<translationStats, captioned>>

vars == <<currentLocale, messages, isLoading, userLanguage, translations, calls, last,
          previous, providerVars>>

\* What the steps of the language store and of loadLanguage leave alone.
aside == providerVars

\* A call that did not come from initializeLanguage.
NoInit == [called |-> FALSE, persisted |-> Null, native |-> FALSE, probe |-> "none"]

storeVars == <<currentLocale, messages, isLoading>>

\* A slot holding no call.
Idle ==
    [pc |-> "idle", op |-> "none", locale |-> Undefined, section |-> Undefined,
     fetched |-> FALSE, response |-> "none", received |-> {}, cached |-> {},
     result |-> {}, init |-> NoInit]

\* No store call has returned yet.
NoCall ==
    [op |-> "none", locale |-> Undefined, section |-> Undefined,
     fetched |-> FALSE, response |-> "none", received |-> {}, cached |-> {},
     result |-> {}, loadRaised |-> FALSE, rejected |-> FALSE]

Quiescent == \A t \in Calls : calls[t].pc = "idle"

\* A new call takes the lowest free slot (the slots are interchangeable).
FreeSlot(t) ==
    /\ calls[t].pc = "idle"
    /\ \A u \in Calls : u < t => calls[u].pc # "idle"

\* What `previous` keeps of a returned call.
Brief(r) == [op |-> r.op, locale |-> r.locale]

\* The summary of call t, recorded when it returns.
Returned(c, loadRaised, rejected) ==
    [op |-> c.op, locale |-> c.locale, section |-> c.section,
     fetched |-> c.fetched, response |-> c.response, received |-> c.received,
     cached |-> c.cached, result |-> c.result,
     loadRaised |-> loadRaised, rejected |-> rejected]

\* --------------------------------------------------------- db.ts helpers
\* localStorage.getItem('user-language') || 'en'
getCurrentLanguage(item) == IF item = Null THEN "en" ELSE item

\* Variant of setItem: the write is lost.
setItemLost(item, value) == item

\* localStorage.setItem('user-language', value): the new entry.
setItem(item, value) == value

\* languageDB.get: the stored document is read only if the marker matches.
markerMatches(item, locale) == getCurrentLanguage(item) = locale

\* Variant of markerDiffers: the store is never cleared.
markerNeverDiffers(item, locale) == FALSE

\* languageDB.set: the store is cleared first if the marker differs.
markerDiffers(item, locale) == getCurrentLanguage(item) # locale

\* db.get('translations', 'current'): the value under the key, or undefined
\* (the empty set).
dbGet(objectStore) ==
    IF "current" \in DOMAIN objectStore THEN {objectStore["current"]} ELSE {}

\* Variant of dbPut: the value is not stored.
dbPutNothing(objectStore, value) == objectStore

\* db.put('translations', value, 'current')
dbPut(objectStore, value) == [k \in DOMAIN objectStore \cup {"current"} |->
                                 IF k = "current" THEN value ELSE objectStore[k]]

\* db.clear('translations')
dbClear(objectStore) == <<>>

\* ------------------------------------------------ languageService helpers
\* Variant of loadLanguageCatch: the catch block falls back to whatever the
\* object store holds.
loadLanguageCatchStale(objectStore) ==
    IF "current" \in DOMAIN objectStore THEN objectStore["current"] ELSE EmptyDoc

\* What loadLanguage returns from its catch block.
loadLanguageCatch(objectStore) == EmptyDoc

\* Variant of loadLanguage: the default locale is loaded like any other.
loadLanguageNoShortcut(op, locale, section) ==
    [Idle EXCEPT !.pc = "get", !.op = op, !.locale = locale, !.section = section]

\* The call record when loadLanguage(locale) is entered for operation op:
\* the default locale returns {} at once, any other locale awaits
\* languageDB.get.
loadLanguage(op, locale, section) ==
    IF locale = "en"
    THEN [Idle EXCEPT !.pc = "loaded", !.op = op, !.locale = locale,
                      !.section = section, !.result = {EmptyDoc}]
    ELSE [Idle EXCEPT !.pc = "get", !.op = op, !.locale = locale,
                      !.section = section]

\* ----------------------------------------------------------- store helpers
\* setAndLoadLanguage: the sections to keep
sectionsToLoad(uiSection) ==
    defaultSections \cup
        (IF uiSection # Undefined /\ uiSection \notin defaultSections
         THEN {uiSection} ELSE {})

\* Variant of filteredMessages: the document is taken whole.
unfilteredMessages(allMessages, uiSection) == allMessages

\* setAndLoadLanguage, the filter loop: allMessages[section] is truthy exactly when the
\* section is a key of the document (a section value is an object).
filteredMessages(allMessages, uiSection) ==
    [s \in {x \in sectionsToLoad(uiSection) : x \in DOMAIN allMessages} |->
        allMessages[s]]

\* Variant of mergeSection: the loaded section replaces messages.
replaceBySection(msgs, sectionName, allMessages) ==
    IF sectionName \in DOMAIN allMessages
    THEN [s \in {sectionName} |-> allMessages[sectionName]]
    ELSE msgs

\* loadAdditionalSection: { ...this.messages, [sectionName]: ... }
mergeSection(msgs, sectionName, allMessages) ==
    IF sectionName \in DOMAIN allMessages
    THEN [s \in DOMAIN msgs \cup {sectionName} |->
             IF s = sectionName THEN allMessages[sectionName] ELSE msgs[s]]
    ELSE msgs

\* Variant of skipsLoad: no early return.
neverSkipsLoad(locale) == FALSE

\* loadAdditionalSection: the early return of loadAdditionalSection.
skipsLoad(locale) == locale = "en"

\* Variant of finallyIsLoading: isLoading is reset in the try body only.
resetInTryOnly(old, raised) == IF raised THEN old ELSE FALSE

\* The finally block: the value isLoading is left with, whether the try
\* body completed or the catch block ran.
finallyIsLoading(old, raised) == FALSE

\* The language codes the device probe may report (after substring(0, 2)):
\* a supported one and an unsupported one.
DeviceCodes == {"fr", "de"}

\* Variant of initialLocaleOf: a supported device language overrides the
\* persisted preference.
deviceLanguageFirst(first, item, probe) ==
    IF probe \in supportedLocales THEN probe ELSE first

\* initializeLanguage: the locale it activates.  `first` is the value of
\* line 62, `probe` the language code of the device ("none" off a native
\* platform, "failed" if the probe raised), `item` the entry read at line 67.
initialLocaleOf(first, item, probe) ==
    IF probe \in supportedLocales
    THEN (IF item = Null THEN probe ELSE item)
    ELSE first

\* ------------------------------------------------------- provider values
\* JavaScript values of the caption provider: undefined, strings (sequences
\* of characters), numbers and objects (functions from property names,
\* themselves sequences of characters, to values).
Undef == [type |-> "undefined"]

Str(s) == [type |-> "string", str |-> s]

Num(n) == [type |-> "number", num |-> n]

Obj(f) == [type |-> "object", props |-> f]

\* translationStats as the provider is created.
ZeroStats == [storeHits |-> 0, fallbackHits |-> 0, missingKeys |-> 0]

Bool(b) == [type |-> "boolean", bool |-> b]

\* No provider call has been made yet.
NoCaption ==
    [op |-> "none", key |-> <<>>, fallback |-> Undef, params |-> <<>>,
     hasParams |-> FALSE, source |-> "none", raw |-> Undef, result |-> Undef,
     made |-> 0, keys |-> <<>>]

\* ------------------------------------------------------------------ Init
Init ==
    /\ currentLocale = "en"
    /\ messages = EmptyDoc
    /\ isLoading = FALSE
    /\ userLanguage = Null
    /\ translations = <<>>
    /\ calls = [t \in Calls |-> Idle]
    /\ last = NoCall
    /\ previous = Brief(NoCall)
    /\ translationStats = ZeroStats
    /\ captioned = NoCaption

\* --------------------------------------------------- operations: the store
\* setAndLoadLanguage(locale, uiSection) up to its await: isLoading is set
\* and loadLanguage(locale) is entered.
setAndLoadLanguage(t, locale, uiSection) ==
    /\ FreeSlot(t)
    /\ isLoading' = TRUE
    /\ calls' = [calls EXCEPT ![t] = loadLanguage("setAndLoadLanguage", locale, uiSection)]
    /\ UNCHANGED <<currentLocale, messages, userLanguage, translations, last, previous>>
    /\ UNCHANGED aside

\* setAndLoadLanguage after the await: the try body if loadLanguage
\* returned, the catch body if it raised, then the finally block.
setAndLoadLanguageResume(t) ==
    /\ calls[t].op = "setAndLoadLanguage"
    /\ calls[t].pc \in {"loaded", "raised"}
    /\ IF calls[t].pc = "loaded"
       THEN /\ messages' = filteredMessages(CHOOSE d \in calls[t].result : TRUE,
                                            calls[t].section)
            /\ currentLocale' = calls[t].locale
            /\ userLanguage' = setItem(userLanguage, calls[t].locale)
       ELSE /\ messages' = EmptyDoc
            /\ UNCHANGED <<currentLocale, userLanguage>>
    /\ isLoading' = finallyIsLoading(isLoading, calls[t].pc = "raised")
    /\ last' = Returned(calls[t], calls[t].pc = "raised", FALSE)
    /\ previous' = Brief(last)
    /\ calls' = [calls EXCEPT ![t] = Idle]
    /\ UNCHANGED translations
    /\ UNCHANGED aside

\* loadAdditionalSection(sectionName) up to its await, or all of it when
\* the current locale is 'en'.
loadAdditionalSection(t, sectionName) ==
    /\ FreeSlot(t)
    /\ IF skipsLoad(currentLocale)
       THEN /\ last' = [NoCall EXCEPT !.op = "loadAdditionalSection",
                                      !.locale = currentLocale,
                                      !.section = sectionName]
            /\ previous' = Brief(last)
            /\ UNCHANGED <<isLoading, calls>>
       ELSE /\ isLoading' = TRUE
            /\ calls' = [calls EXCEPT ![t] =
                   loadLanguage("loadAdditionalSection", currentLocale, sectionName)]
            /\ UNCHANGED <<last, previous>>
    /\ UNCHANGED <<currentLocale, messages, userLanguage, translations>>
    /\ UNCHANGED aside

\* loadAdditionalSection after the await.
loadAdditionalSectionResume(t) ==
    /\ calls[t].op = "loadAdditionalSection"
    /\ calls[t].pc \in {"loaded", "raised"}
    /\ IF calls[t].pc = "loaded"
       THEN messages' = mergeSection(messages, calls[t].section,
                                     CHOOSE d \in calls[t].result : TRUE)
       ELSE UNCHANGED messages
    /\ isLoading' = finallyIsLoading(isLoading, calls[t].pc = "raised")
    /\ last' = Returned(calls[t], calls[t].pc = "raised", FALSE)
    /\ previous' = Brief(last)
    /\ calls' = [calls EXCEPT ![t] = Idle]
    /\ UNCHANGED <<currentLocale, userLanguage, translations>>
    /\ UNCHANGED aside

\* clearLanguageCache() up to the clear request of languageDB.clear.
clearLanguageCache(t) ==
    /\ FreeSlot(t)
    /\ calls' = [calls EXCEPT ![t] = [Idle EXCEPT !.pc = "clear",
                                                  !.op = "clearLanguageCache"]]
    /\ UNCHANGED <<storeVars, userLanguage, translations, last, previous>>
    /\ UNCHANGED aside

\* languageDB.clear: the request clears the object store, or fails and
\* clearLanguageCache rejects (it has no try block).
clearLanguageCacheResume(t) ==
    /\ calls[t].pc = "clear"
    /\ \/ /\ translations' = dbClear(translations)
          /\ last' = Returned(calls[t], FALSE, FALSE)
       \/ /\ UNCHANGED translations
          /\ last' = Returned(calls[t], FALSE, TRUE)
    /\ previous' = Brief(last)
    /\ calls' = [calls EXCEPT ![t] = Idle]
    /\ UNCHANGED <<storeVars, userLanguage>>
    /\ UNCHANGED aside

\* initializeLanguage() up to its first await: off a native platform
\* setAndLoadLanguage(initialLocale) is entered at once, on a native
\* platform the device probe is awaited.
initializeLanguage(t, native) ==
    /\ FreeSlot(t)
    /\ LET first == getCurrentLanguage(userLanguage)
           init == [called |-> TRUE, persisted |-> userLanguage, native |-> native,
                    probe |-> "none"]
       IN  IF native
           THEN /\ calls' = [calls EXCEPT ![t] =
                       [Idle EXCEPT !.pc = "probe", !.op = "initializeLanguage",
                                    !.locale = first, !.init = init]]
                /\ UNCHANGED isLoading
           ELSE /\ calls' = [calls EXCEPT ![t] =
                       [loadLanguage("setAndLoadLanguage",
                                     initialLocaleOf(first, userLanguage, "none"),
                                     Undefined)
                        EXCEPT !.init = init]]
                /\ isLoading' = TRUE
    /\ UNCHANGED <<currentLocale, messages, userLanguage, translations, last, previous>>
    /\ UNCHANGED aside

\* Device.getLanguageCode() settles with a language code or raises; then
\* setAndLoadLanguage(initialLocale) is entered.
getLanguageCodeSettles(t) ==
    /\ calls[t].pc = "probe"
    /\ \E probe \in DeviceCodes \cup {"failed"} :
          calls' = [calls EXCEPT ![t] =
              [loadLanguage("setAndLoadLanguage",
                            initialLocaleOf(calls[t].locale, userLanguage, probe),
                            Undefined)
               EXCEPT !.init = [calls[t].init EXCEPT !.probe = probe]]]
    /\ isLoading' = TRUE
    /\ UNCHANGED <<currentLocale, messages, userLanguage, translations, last, previous>>
    /\ UNCHANGED aside

\* The page is loaded again: the store and the caption provider are
\* created anew, calls in flight are gone, localStorage and IndexedDB stay.
reload ==
    /\ currentLocale' = "en"
    /\ messages' = EmptyDoc
    /\ isLoading' = FALSE
    /\ calls' = [t \in Calls |-> Idle]
    /\ last' = NoCall
    /\ previous' = Brief(NoCall)
    /\ translationStats' = ZeroStats
    /\ captioned' = NoCaption
    /\ UNCHANGED <<userLanguage, translations>>

\* ------------------------------------------- operations: inside loadLanguage
\* languageDB.get after `await dbPromise`: the marker is read; a match
\* issues the read request, a mismatch returns undefined and loadLanguage
\* issues the fetch.  A rejected dbPromise makes loadLanguage raise: the
\* call is outside its try block.
languageDBGet(t) ==
    /\ calls[t].pc = "get"
    /\ \/ calls' = [calls EXCEPT ![t].pc =
                       IF markerMatches(userLanguage, calls[t].locale)
                       THEN "get_read" ELSE "fetch",
                                 ![t].fetched =
                       ~markerMatches(userLanguage, calls[t].locale)]
       \/ calls' = [calls EXCEPT ![t].pc = "raised"]
    /\ UNCHANGED <<storeVars, userLanguage, translations, last, previous>>
    /\ UNCHANGED aside

\* The read request of languageDB.get completes: a document is returned
\* by loadLanguage, undefined leads to the fetch, a failed request makes
\* loadLanguage raise.
languageDBGetRead(t) ==
    /\ calls[t].pc = "get_read"
    /\ \/ LET cached == dbGet(translations) IN
          calls' = [calls EXCEPT ![t].cached = cached,
                                 ![t].pc = IF cached # {} THEN "loaded" ELSE "fetch",
                                 ![t].fetched = (cached = {}),
                                 ![t].result = cached]
       \/ calls' = [calls EXCEPT ![t].pc = "raised"]
    /\ UNCHANGED <<storeVars, userLanguage, translations, last, previous>>
    /\ UNCHANGED aside

\* The fetch settles: a success response whose body parses is handed to
\* languageDB.set; a transport error, a non-success status or a body that
\* does not parse ends in the catch block.
fetchSettles(t) ==
    /\ calls[t].pc = "fetch"
    /\ \/ \E d \in RemoteDocs(calls[t].locale) :
             calls' = [calls EXCEPT ![t].response = "ok",
                                    ![t].received = {d},
                                    ![t].pc = "set"]
       \/ \E failure \in {"transport", "status", "parse"} :
             calls' = [calls EXCEPT ![t].response = failure,
                                    ![t].pc = "loaded",
                                    ![t].result = {loadLanguageCatch(translations)}]
    /\ UNCHANGED <<storeVars, userLanguage, translations, last, previous>>
    /\ UNCHANGED aside

\* languageDB.set after `await dbPromise`: the marker is read and the
\* clear request or the put request is issued; a rejected dbPromise ends
\* in the catch block of loadLanguage.
languageDBSet(t) ==
    /\ calls[t].pc = "set"
    /\ \/ calls' = [calls EXCEPT ![t].pc =
                       IF markerDiffers(userLanguage, calls[t].locale)
                       THEN "set_clear" ELSE "set_put"]
       \/ calls' = [calls EXCEPT ![t].pc = "loaded",
                                 ![t].result = {loadLanguageCatch(translations)}]
    /\ UNCHANGED <<storeVars, userLanguage, translations, last, previous>>
    /\ UNCHANGED aside

\* The clear request of languageDB.set completes or fails.
languageDBSetClear(t) ==
    /\ calls[t].pc = "set_clear"
    /\ \/ /\ translations' = dbClear(translations)
          /\ calls' = [calls EXCEPT ![t].pc = "set_put"]
       \/ /\ UNCHANGED translations
          /\ calls' = [calls EXCEPT ![t].pc = "loaded",
                                    ![t].result = {loadLanguageCatch(translations)}]
    /\ UNCHANGED <<storeVars, userLanguage, last, previous>>
    /\ UNCHANGED aside

\* The put request of languageDB.set completes and loadLanguage returns
\* the received document, or it fails.
languageDBSetPut(t) ==
    /\ calls[t].pc = "set_put"
    /\ \/ /\ translations' = dbPut(translations, CHOOSE d \in calls[t].received : TRUE)
          /\ calls' = [calls EXCEPT ![t].pc = "loaded",
                                    ![t].result = calls[t].received]
       \/ /\ UNCHANGED translations
          /\ calls' = [calls EXCEPT ![t].pc = "loaded",
                                    ![t].result = {loadLanguageCatch(translations)}]
    /\ UNCHANGED <<storeVars, userLanguage, last, previous>>
    /\ UNCHANGED aside

\* ------------------------------------------------- the caption provider
\* JavaScript truthiness.
truthy(v) ==
    CASE v.type = "undefined" -> FALSE
      [] v.type = "string" -> v.str # <<>>
      [] v.type = "number" -> v.num # 0
      [] v.type = "boolean" -> v.bool
      [] v.type = "object" -> TRUE

\* The decimal digits of a natural number.
RECURSIVE digits(_)
digits(n) ==
    LET d == <<"0", "1", "2", "3", "4", "5", "6", "7", "8", "9">>[(n % 10) + 1]
    IN  IF n < 10 THEN <<d>> ELSE digits(n \div 10) \o <<d>>

\* String(value) for a string or a number.
String(v) == IF v.type = "number" THEN digits(v.num) ELSE v.str

\* current[key]: an own property of an object, the length or a character
\* of a string, undefined otherwise (inherited members are left out).
prop(current, key) ==
    CASE current.type = "object" ->
            IF key \in DOMAIN current.props THEN current.props[key] ELSE Undef
      [] current.type = "string" ->
            IF key = <<"l", "e", "n", "g", "t", "h">> THEN Num(Len(current.str))
            ELSE IF key = <<"0">> /\ Len(current.str) > 0
                 THEN Str(<<current.str[1]>>)
                 ELSE Undef
      [] OTHER -> Undef

\* path.split('.')
RECURSIVE split(_)
split(path) ==
    IF \E i \in 1..Len(path) : path[i] = "."
    THEN LET i == CHOOSE j \in 1..Len(path) :
                     path[j] = "." /\ \A k \in 1..(j - 1) : path[k] # "."
         IN  <<SubSeq(path, 1, i - 1)>> \o split(SubSeq(path, i + 1, Len(path)))
    ELSE <<path>>

\* The loop of getNestedValue over the remaining keys.
RECURSIVE descend(_, _)
descend(current, keys) ==
    IF keys = <<>> THEN current
    ELSE IF truthy(current) /\ prop(current, Head(keys)) # Undef
         THEN descend(prop(current, Head(keys)), Tail(keys))
         ELSE Undef

getNestedValue(obj, path) == descend(obj, split(path))

\* The first index at which pattern occurs in s, 0 if it does not.
indexOf(s, pattern) ==
    LET at == {i \in 1..(Len(s) - Len(pattern) + 1) :
                  SubSeq(s, i, i + Len(pattern) - 1) = pattern}
    IN  IF at = {} THEN 0 ELSE CHOOSE i \in at : \A j \in at : i <= j

\* The replacement text of String.prototype.replace for a string pattern:
\* $$ is a dollar sign, $& the match, $` the text before it, $' the text
\* after it.
RECURSIVE substitution(_, _, _, _)
substitution(replacement, matched, before, after) ==
    IF replacement = <<>> THEN <<>>
    ELSE IF Head(replacement) = "$" /\ Len(replacement) > 1
              /\ replacement[2] \in {"$", "&", "`", "'"}
         THEN (CASE replacement[2] = "$" -> <<"$">>
                 [] replacement[2] = "&" -> matched
                 [] replacement[2] = "`" -> before
                 [] replacement[2] = "'" -> after)
              \o substitution(SubSeq(replacement, 3, Len(replacement)),
                              matched, before, after)
         ELSE <<Head(replacement)>>
              \o substitution(Tail(replacement), matched, before, after)

\* Variant of replace: the pattern is looked for without its closing brace.
replaceOpenPattern(s, pattern, replacement) ==
    LET open == SubSeq(pattern, 1, Len(pattern) - 1)
        i == indexOf(s, open)
    IN  IF i = 0 THEN s
        ELSE SubSeq(s, 1, i - 1) \o replacement
             \o SubSeq(s, i + Len(open), Len(s))

\* s.replace(pattern, replacement) for a string pattern: the first
\* occurrence only.
replace(s, pattern, replacement) ==
    LET i == indexOf(s, pattern) IN
    IF i = 0 THEN s
    ELSE LET before == SubSeq(s, 1, i - 1)
             after == SubSeq(s, i + Len(pattern), Len(s))
         IN  before \o substitution(replacement, pattern, before, after) \o after

\* `{${paramKey}}`
pattern(paramKey) == <<"{">> \o paramKey \o <<"}">>

\* Object.entries(params).forEach(...): params is the sequence of the
\* entries <<paramKey, paramValue>> in insertion order.
RECURSIVE interpolate(_, _)
interpolate(translation, params) ==
    IF params = <<>> THEN translation
    ELSE interpolate(replace(translation,
                             pattern(Head(params)[1]),
                             String(Head(params)[2])),
                     Tail(params))

\* Where caption takes the translation of key from.
sourceOf(msgs, english, key) ==
    IF truthy(getNestedValue(msgs, key)) THEN "store"
    ELSE IF truthy(getNestedValue(english, key)) THEN "fallback"
    ELSE "missing"

\* The translation before the parameters are interpolated.
translationOf(msgs, english, key, fallback) ==
    CASE sourceOf(msgs, english, key) = "store" -> getNestedValue(msgs, key)
      [] sourceOf(msgs, english, key) = "fallback" -> getNestedValue(english, key)
      [] OTHER -> IF truthy(fallback) THEN fallback ELSE Str(key)

\* Variant of countOne: a missing key is not counted.
countFound(stats, source) ==
    CASE source = "store" -> [stats EXCEPT !.storeHits = @ + 1]
      [] source = "fallback" -> [stats EXCEPT !.fallbackHits = @ + 1]
      [] OTHER -> stats

\* translationStats after the increment caption makes for the source.
countOne(stats, source) ==
    CASE source = "store" -> [stats EXCEPT !.storeHits = @ + 1]
      [] source = "fallback" -> [stats EXCEPT !.fallbackHits = @ + 1]
      [] OTHER -> [stats EXCEPT !.missingKeys = @ + 1]

\* hasTranslation(key)
hasTranslationOf(msgs, key) == getNestedValue(msgs, key) # Undef

\* A bundled English document: the sections c and d.
englishFallbacks ==
    Obj((<<"c">> :> Obj((<<"s">> :> Str(<<"S">>))
                        @@ (<<"x">> :> Str(<<"C">>))
                        @@ (<<"e">> :> Str(<<"E">>))
                        @@ (<<"t">> :> Str(<<"{", "n", "}", "-", "{", "m", "}">>))
                        @@ (<<"o">> :> Str(<<"{", "n", "o", "}", " ", "{", "m", "}">>))))
        @@ (<<"d">> :> Obj(<<"w">> :> Str(<<"W", "{", "n", "}">>))))

\* The content trees a store may hold: nothing, or a part of a document
\* whose section c has empty values and a repeated placeholder.
StoreTrees ==
    {Obj(<<>>),
     Obj(<<"c">> :> Obj((<<"s">> :> Str(<<"G">>))
                        @@ (<<"e">> :> Str(<<>>))
                        @@ (<<"z">> :> Str(<<>>))
                        @@ (<<"t">> :> Str(<<"{", "n", "}", "+", "{", "n", "}">>))))}

\* The keys captions are asked for.
CaptionKeys ==
    {<<"c", ".", "s">>, <<"c", ".", "x">>, <<"c", ".", "e">>, <<"c", ".", "z">>,
     <<"c", ".", "t">>, <<"c", ".", "o">>, <<"d", ".", "w">>, <<"u">>, <<"c">>,
     <<"c", ".", "s", ".", "l", "e", "n", "g", "t", "h">>}

\* The fallback argument: absent, the empty string, a text.
CaptionFallbacks == {Undef, Str(<<>>), Str(<<"N">>)}

\* The params argument: absent, or the entries of an object.
CaptionParams ==
    {[has |-> FALSE, entries |-> <<>>]}
    \cup {[has |-> TRUE, entries |-> e] :
            e \in {<<>>,
                   <<<<<<"n">>, Str(<<"A">>)>>>>,
                   <<<<<<"n">>, Num(17)>>>>,
                   <<<<<<"n">>, Str(<<"{", "m", "}">>)>>, <<<<"m">>, Str(<<"B">>)>>>>,
                   <<<<<<"n">>, Str(<<"$", "&">>)>>>>}}

\* A page that holds one of the content trees, before any provider call.
ProviderInit ==
    /\ currentLocale = "es"
    /\ messages \in StoreTrees
    /\ isLoading = FALSE
    /\ userLanguage = "es"
    /\ translations = <<>>
    /\ calls = [t \in Calls |-> Idle]
    /\ last = NoCall
    /\ previous = Brief(NoCall)
    /\ translationStats = ZeroStats
    /\ captioned = NoCaption

\* useCaptionProvider(): a new provider with its own counters.
useCaptionProvider ==
    /\ captioned # NoCaption
    /\ translationStats' = ZeroStats
    /\ captioned' = NoCaption
    /\ UNCHANGED <<currentLocale, messages, isLoading, userLanguage, translations,
                   calls, last, previous>>

\* caption(key, fallback, params)
caption(key, fallback, params) ==
    /\ captioned.made < MaxCaptions
    /\ LET source == sourceOf(messages, englishFallbacks, key)
           raw == translationOf(messages, englishFallbacks, key, fallback)
           result == IF params.has /\ raw.type = "string"
                     THEN Str(interpolate(raw.str, params.entries))
                     ELSE raw
       IN  /\ translationStats' = countOne(translationStats, source)
           /\ captioned' = [op |-> "caption", key |-> key, fallback |-> fallback,
                            params |-> params.entries, hasParams |-> params.has,
                            source |-> source, raw |-> raw, result |-> result,
                            made |-> captioned.made + 1, keys |-> <<>>]
    /\ UNCHANGED <<currentLocale, messages, isLoading, userLanguage, translations,
                   calls, last, previous>>

\* hasTranslation(key)
hasTranslation(key) ==
    /\ captioned' = [captioned EXCEPT !.op = "hasTranslation", !.key = key,
                                      !.fallback = Undef, !.params = <<>>,
                                      !.hasParams = FALSE, !.source = "none",
                                      !.raw = Undef, !.keys = <<>>,
                                      !.result = Bool(hasTranslationOf(messages, key))]
    /\ UNCHANGED <<currentLocale, messages, isLoading, userLanguage, translations,
                   calls, last, previous, translationStats>>

\* The key lists captions is asked for: none, one, two, the same twice.
CaptionKeyLists ==
    {<<>>,
     <<<<"c", ".", "s">>>>,
     <<<<"c", ".", "s">>, <<"c", ".", "x">>>>,
     <<<<"u">>, <<"u">>>>,
     <<<<"c", ".", "e">>, <<"d", ".", "w">>, <<"c">>>>}

\* What caption(key) returns: no fallback and no params are passed.
captionOf(msgs, key) == translationOf(msgs, englishFallbacks, key, Undef)

\* Variant of countAll: a key is counted once however often it is listed.
RECURSIVE countDistinct(_, _, _)
countDistinct(stats, msgs, keys) ==
    IF keys = <<>> THEN stats
    ELSE IF \E i \in 2..Len(keys) : keys[i] = Head(keys)
         THEN countDistinct(stats, msgs, Tail(keys))
         ELSE countDistinct(countOne(stats, sourceOf(msgs, englishFallbacks, Head(keys))),
                            msgs, Tail(keys))

\* translationStats after keys.forEach(key => caption(key)).
RECURSIVE countAll(_, _, _)
countAll(stats, msgs, keys) ==
    IF keys = <<>> THEN stats
    ELSE countAll(countOne(stats, sourceOf(msgs, englishFallbacks, Head(keys))),
                  msgs, Tail(keys))

\* captions(keys)
captions(keys) ==
    /\ captioned.made + Len(keys) <= MaxCaptions
    /\ translationStats' = countAll(translationStats, messages, keys)
    /\ captioned' = [op |-> "captions", key |-> <<>>, fallback |-> Undef,
                     params |-> <<>>, hasParams |-> FALSE, source |-> "none",
                     raw |-> Undef,
                     result |-> Obj([k \in {keys[i] : i \in 1..Len(keys)} |->
                                        captionOf(messages, k)]),
                     made |-> captioned.made + Len(keys), keys |-> keys]
    /\ UNCHANGED <<currentLocale, messages, isLoading, userLanguage, translations,
                   calls, last, previous>>

ProviderNext ==
    \/ useCaptionProvider
    \/ \E keys \in CaptionKeyLists : captions(keys)
    \/ \E key \in CaptionKeys, fallback \in CaptionFallbacks, params \in CaptionParams :
          caption(key, fallback, params)
    \/ \E key \in CaptionKeys : hasTranslation(key)

ProviderSpec == ProviderInit /\ [][ProviderNext]_vars

\* ------------------------------------------------------------ specification
\* A step inside a call that is in flight.
Step(t) ==
    \/ setAndLoadLanguageResume(t)
    \/ loadAdditionalSectionResume(t)
    \/ clearLanguageCacheResume(t)
    \/ languageDBGet(t)
    \/ languageDBGetRead(t)
    \/ fetchSettles(t)
    \/ languageDBSet(t)
    \/ languageDBSetClear(t)
    \/ languageDBSetPut(t)
    \/ getLanguageCodeSettles(t)

\* The caller issues the store calls one after the other.
Next ==
    \/ \E t \in Calls, locale \in supportedLocales, uiSection \in UiSections :
          Quiescent /\ setAndLoadLanguage(t, locale, uiSection)
    \/ \E t \in Calls, sectionName \in SectionNames :
          Quiescent /\ loadAdditionalSection(t, sectionName)
    \/ \E t \in Calls : Quiescent /\ clearLanguageCache(t)
    \/ \E t \in Calls, native \in BOOLEAN : Quiescent /\ initializeLanguage(t, native)
    \/ Quiescent /\ reload
    \/ \E t \in Calls : Step(t)

Spec == Init /\ [][Next]_vars

\* ------------------------------------------- overlapping activations
\* The steps of a setAndLoadLanguage call in flight.
OverlapStep(t) ==
    \/ setAndLoadLanguageResume(t)
    \/ languageDBGet(t)
    \/ languageDBGetRead(t)
    \/ fetchSettles(t)
    \/ languageDBSet(t)
    \/ languageDBSetClear(t)
    \/ languageDBSetPut(t)

\* Since the page was loaded, one setAndLoadLanguage call is issued and,
\* while it is suspended at its await, a second one; the page is loaded
\* again once they have returned.
OverlapNext ==
    \/ \E t \in Calls, locale \in supportedLocales, uiSection \in UiSections :
          /\ last = NoCall
          /\ Quiescent
          /\ setAndLoadLanguage(t, locale, uiSection)
    \/ \E t \in Calls, locale \in supportedLocales, uiSection \in UiSections :
          /\ last = NoCall
          /\ Cardinality({u \in Calls : calls[u].pc # "idle"}) = 1
          /\ setAndLoadLanguage(t, locale, uiSection)
    \/ (Quiescent /\ last # NoCall /\ reload)
    \/ \E t \in Calls : OverlapStep(t)

OverlapSpec == Init /\ [][OverlapNext]_vars

\* --------------------------------------------------------- a page session
\* What localStorage may hold under 'user-language' when the page is
\* loaded: nothing, a supported locale, a value that is no supported locale.
StoredPreferences == {Null, "es", "de"}

\* The page is loaded with some stored preference and an empty cache.
SessionInit ==
    /\ currentLocale = "en"
    /\ messages = EmptyDoc
    /\ isLoading = FALSE
    /\ userLanguage \in StoredPreferences
    /\ translations = <<>>
    /\ calls = [t \in Calls |-> Idle]
    /\ last = NoCall
    /\ previous = Brief(NoCall)
    /\ translationStats = ZeroStats
    /\ captioned = NoCaption

\* App.vue calls initializeLanguage() when it is mounted; the other store
\* calls are issued after it has returned, one after the other.
SessionNext ==
    \/ \E t \in Calls, native \in BOOLEAN :
          Quiescent /\ last = NoCall /\ initializeLanguage(t, native)
    \/ \E t \in Calls, locale \in supportedLocales, uiSection \in UiSections :
          Quiescent /\ last # NoCall /\ setAndLoadLanguage(t, locale, uiSection)
    \/ \E t \in Calls, sectionName \in SectionNames :
          Quiescent /\ last # NoCall /\ loadAdditionalSection(t, sectionName)
    \/ \E t \in Calls : Quiescent /\ last # NoCall /\ clearLanguageCache(t)
    \/ (Quiescent /\ last # NoCall /\ reload)
    \/ \E t \in Calls : Step(t)

SessionSpec == SessionInit /\ [][SessionNext]_vars

\* ------------------------------------------------- interleaved store calls
\* The steps of a setAndLoadLanguage or loadAdditionalSection call in
\* flight.
InterleavedStep(t) ==
    \/ setAndLoadLanguageResume(t)
    \/ loadAdditionalSectionResume(t)
    \/ languageDBGet(t)
    \/ languageDBGetRead(t)
    \/ fetchSettles(t)
    \/ languageDBSet(t)
    \/ languageDBSetClear(t)
    \/ languageDBSetPut(t)

\* At most one call is suspended at its await.
AtMostOneInFlight == Cardinality({u \in Calls : calls[u].pc # "idle"}) <= 1

\* No call has returned since the first one did.
FirstReturned == last # NoCall /\ previous.op = "none"

\* A first setAndLoadLanguage call is made and returns; then two calls,
\* setAndLoadLanguage or loadAdditionalSection, are made, the second of
\* them possibly while the first is suspended at its await.
InterleavedNext ==
    \/ \E t \in Calls, locale \in supportedLocales, uiSection \in UiSections :
          Quiescent /\ last = NoCall /\ setAndLoadLanguage(t, locale, uiSection)
    \/ \E t \in Calls, locale \in supportedLocales, uiSection \in UiSections :
          AtMostOneInFlight /\ FirstReturned /\ setAndLoadLanguage(t, locale, uiSection)
    \/ \E t \in Calls, sectionName \in SectionNames :
          AtMostOneInFlight /\ FirstReturned /\ loadAdditionalSection(t, sectionName)
    \/ \E t \in Calls : InterleavedStep(t)

InterleavedSpec == Init /\ [][InterleavedNext]_vars

\* ------------------------------------------------ progress of the calls
\* The code after the await of a store call: the event loop runs it once
\* loadLanguage has returned or raised.
Continuation(t) ==
    \/ setAndLoadLanguageResume(t)
    \/ loadAdditionalSectionResume(t)

\* A request loadLanguage made to IndexedDB or the network settles.
Responds(t) ==
    \/ languageDBGet(t)
    \/ languageDBGetRead(t)
    \/ fetchSettles(t)
    \/ languageDBSet(t)
    \/ languageDBSetClear(t)
    \/ languageDBSetPut(t)

\* setAndLoadLanguage and loadAdditionalSection are called one after the
\* other.
LiveNext ==
    \/ \E t \in Calls, locale \in supportedLocales, uiSection \in UiSections :
          Quiescent /\ setAndLoadLanguage(t, locale, uiSection)
    \/ \E t \in Calls, sectionName \in SectionNames :
          Quiescent /\ loadAdditionalSection(t, sectionName)
    \/ \E t \in Calls : Continuation(t)
    \/ \E t \in Calls : Responds(t)

\* The event loop runs every continuation that is ready; no request is
\* required to settle.
LiveSpec ==
    Init /\ [][LiveNext]_vars /\ \A t \in Calls : WF_vars(Continuation(t))

\* ------------------------------------------------------- claim vocabulary
IsActivate(r) == r.op = "setAndLoadLanguage"

IsLoadSection(r) == r.op = "loadAdditionalSection"

NetworkFailures == {"transport", "status", "parse"}

\* What languageDB.get(locale) returns in the current state when no request
\* fails: the stored value if the marker matches, undefined otherwise.
GetReturns(locale) ==
    IF getCurrentLanguage(userLanguage) = locale THEN dbGet(translations) ELSE {}

\* The document a returned call got from loadLanguage.
Loaded(r) == CHOOSE d \in r.result : TRUE

\* -------------------------------------------------------------------- C1
\* C1: whenever languageDB.get(L) serves a document to loadLanguage, that
\* document was fetched for locale L.
C1_GetServesRequestedLocale ==
    \A t \in Calls : \A d \in calls[t].cached : LocaleOf(d) = calls[t].locale

\* -------------------------------------------------------------------- C2
\* C2 as stated: after setAndLoadLanguage(L), L not the default locale,
\* returned with a successful network retrieval, the setAndLoadLanguage(L)
\* issued next issues no network retrieval and loadLanguage returns it the
\* same document (read leniently: a call whose loadLanguage raises is not
\* held against the claim).
C2_SecondActivateFromCache_AsStated ==
    \A t \in Calls :
        ( /\ IsActivate(last) /\ last.locale # DefaultLocale
          /\ last.response = "ok"
          /\ IsActivate(calls[t]) /\ calls[t].locale = last.locale )
        => /\ ~calls[t].fetched
           /\ calls[t].pc = "loaded" => calls[t].result = last.received

\* C2 amended: when the first call's cache write succeeded as well (its
\* loadLanguage returned the retrieved document), the next
\* setAndLoadLanguage(L) issues no network retrieval, and unless its cache
\* read fails loadLanguage returns it the same document, read from the
\* Local Cache.
C2_SecondActivateFromCache ==
    \A t \in Calls :
        ( /\ IsActivate(last) /\ last.locale # DefaultLocale
          /\ last.response = "ok" /\ last.result = last.received
          /\ IsActivate(calls[t]) /\ calls[t].locale = last.locale )
        => /\ ~calls[t].fetched
           /\ calls[t].pc \notin {"fetch", "set", "set_clear", "set_put"}
           /\ calls[t].pc = "loaded" =>
                 /\ calls[t].result = last.received
                 /\ calls[t].cached = last.received

C2_Witness ==
    \E t \in Calls :
        /\ IsActivate(last) /\ last.locale # DefaultLocale
        /\ last.response = "ok" /\ last.result = last.received
        /\ IsActivate(calls[t]) /\ calls[t].locale = last.locale
        /\ calls[t].section # last.section
        /\ calls[t].pc = "loaded" /\ calls[t].cached = last.received

\* -------------------------------------------------------------------- C3
\* setAndLoadLanguage(L1) and then setAndLoadLanguage(L2) have returned,
\* L1 and L2 distinct and not the default locale, and nothing is in flight.
ActivatedInTurn(L1, L2) ==
    /\ Quiescent
    /\ previous.op = "setAndLoadLanguage" /\ previous.locale = L1
    /\ IsActivate(last) /\ last.locale = L2
    /\ L1 # L2 /\ L1 # DefaultLocale /\ L2 # DefaultLocale

\* C3 as stated: then every document the Local Cache holds is L2's and
\* get(L1) returns absent (read leniently: an empty cache is accepted, and
\* a second call whose loadLanguage raised is not held against the claim).
C3_CacheHoldsOnlySecond_AsStated ==
    \A L1, L2 \in supportedLocales :
        (ActivatedInTurn(L1, L2) /\ ~last.loadRaised) =>
            /\ \A d \in dbGet(translations) : LocaleOf(d) = L2
            /\ GetReturns(L1) = {}

\* C3 amended: when the second call's network retrieval and cache write
\* succeeded, the Local Cache holds exactly the document retrieved for L2
\* and get(L1) returns absent.
C3_CacheHoldsOnlySecond ==
    \A L1, L2 \in supportedLocales :
        ( /\ ActivatedInTurn(L1, L2)
          /\ last.response = "ok" /\ last.result = last.received )
        => /\ dbGet(translations) = last.received
           /\ \A d \in dbGet(translations) : LocaleOf(d) = L2
           /\ DOMAIN translations = {"current"}
           /\ GetReturns(L1) = {}
           /\ GetReturns(L2) = last.received

C3_Witness ==
    /\ ActivatedInTurn("es", "fr")
    /\ last.response = "ok" /\ last.result = last.received
    /\ dbGet(translations) = {DocOf("fr", AllSections)}

\* -------------------------------------------------------------------- C4
\* C4: loadLanguage never raises.
C4_LoadNeverRaises ==
    /\ \A t \in Calls : calls[t].pc # "raised"
    /\ ~last.loadRaised

\* -------------------------------------------------------------------- C5
\* C5: a setAndLoadLanguage(L), L not the default locale, whose cache read
\* found nothing and whose network retrieval failed returns with
\* loadLanguage having returned {} and with messages = {}, and does not
\* raise.
C5_NetworkFailureGivesEmpty ==
    ( /\ IsActivate(last) /\ last.locale # DefaultLocale
      /\ last.response \in NetworkFailures )
    => /\ last.fetched /\ last.cached = {}
       /\ last.result = {EmptyDoc}
       /\ ~last.loadRaised /\ ~last.rejected
       /\ messages = EmptyDoc
       /\ DOMAIN messages = {}

C5_Witness ==
    /\ IsActivate(last) /\ last.locale = "fr" /\ last.section = "dashboard"
    /\ last.response = "status"
    /\ translations # <<>>
    /\ messages = EmptyDoc
    /\ Quiescent

\* -------------------------------------------------------------------- C6
\* C6: after setAndLoadLanguage(L, s) returns with loadLanguage having
\* returned D, messages is D restricted to the sections of
\* {common, error, footer} and s that D has, and nothing else.
C6_MessagesAreFilteredDocument ==
    (IsActivate(last) /\ ~last.loadRaised) =>
        LET D == Loaded(last)
            wanted == {"common", "error", "footer"} \cup
                          (IF last.section = Undefined THEN {} ELSE {last.section})
        IN  /\ DOMAIN messages = wanted \cap DOMAIN D
            /\ \A s \in DOMAIN messages : messages[s] = D[s]

C6_Witness ==
    /\ IsActivate(last) /\ ~last.loadRaised
    /\ last.section = "dashboard"
    /\ previous.op = "loadAdditionalSection"
    /\ Loaded(last) = DocOf("es", AllSections)
    /\ DOMAIN messages = {"common", "error", "footer", "dashboard"}
    /\ Quiescent

\* -------------------------------------------------------------------- C7
\* C7: every setAndLoadLanguage(L, s) that returned has left
\* currentLocale = L and the persisted preference = L.
C7_ActivateSetsLocaleAndPreference ==
    IsActivate(last) => /\ currentLocale = last.locale
                        /\ userLanguage = last.locale

\* -------------------------------------------------------------------- C8
\* C8: when a setAndLoadLanguage or loadAdditionalSection call has
\* returned, isLoading is false and the call has not raised to its
\* caller, whatever happened inside loadLanguage.
C8_BusyClearedOnReturn ==
    (Quiescent /\ (IsActivate(last) \/ IsLoadSection(last)))
    => /\ isLoading = FALSE
       /\ ~last.rejected

C8_Witness ==
    /\ Quiescent
    /\ IsLoadSection(last) /\ last.loadRaised
    /\ previous.op = "setAndLoadLanguage"
    /\ isLoading = FALSE

\* -------------------------------------------------------------------- C9
\* The step by which call t of loadAdditionalSection returns.
LoadSectionReturns(t) ==
    /\ IsLoadSection(calls[t])
    /\ calls[t].pc \in {"loaded", "raised"}
    /\ calls'[t].pc = "idle"

\* C9: a loadAdditionalSection(s) call that went to the loader changes
\* neither currentLocale nor the persisted preference at any of its steps,
\* changes messages only when it returns, and then sets section s to the
\* returned document's section s, keeping every other section, if the
\* document has s, and leaves messages as it was otherwise.
C9_LoadSectionIsAdditive ==
    [][\A t \in Calls :
          IsLoadSection(calls[t]) =>
              /\ currentLocale' = currentLocale
              /\ userLanguage' = userLanguage
              /\ IF LoadSectionReturns(t)
                 THEN LET s == calls[t].section
                          D == IF calls[t].pc = "loaded"
                               THEN CHOOSE d \in calls[t].result : TRUE
                               ELSE EmptyDoc
                      IN  IF s \in DOMAIN D
                          THEN /\ DOMAIN messages' = DOMAIN messages \cup {s}
                               /\ messages'[s] = D[s]
                               /\ \A x \in DOMAIN messages \ {s} :
                                     messages'[x] = messages[x]
                          ELSE messages' = messages
                 ELSE messages' = messages]_vars

C9_Witness ==
    /\ Quiescent
    /\ IsLoadSection(last) /\ last.section = "settings"
    /\ previous.op = "setAndLoadLanguage"
    /\ DOMAIN messages = {"common", "error", "footer", "dashboard", "settings"}
    /\ messages["settings"] = Loaded(last)["settings"]

\* ------------------------------------------------------------------- C10
\* A step by which the caller issues loadAdditionalSection: the call
\* either occupies a slot or has returned at once.
LoadSectionIssued ==
    /\ Quiescent
    /\ \/ \E t \in Calls : IsLoadSection(calls'[t])
       \/ last' # last /\ IsLoadSection(last')

\* C10: loadAdditionalSection issued while currentLocale is the default
\* locale returns at once: messages, currentLocale and isLoading are
\* unchanged, no call is left in flight, and neither a network retrieval
\* nor a Local Cache request was issued.
C10_LoadSectionOnDefaultIsNoOp ==
    [][(LoadSectionIssued /\ currentLocale = DefaultLocale) =>
          /\ UNCHANGED <<messages, currentLocale, isLoading>>
          /\ UNCHANGED <<translations, userLanguage>>
          /\ \A t \in Calls : calls'[t].pc = "idle"
          /\ IsLoadSection(last')
          /\ ~last'.fetched /\ last'.response = "none"
          /\ last'.cached = {} /\ last'.result = {}]_vars

C10_Witness ==
    /\ Quiescent
    /\ IsLoadSection(last) /\ last.locale = DefaultLocale
    /\ currentLocale = DefaultLocale
    /\ previous.op = "setAndLoadLanguage" /\ previous.locale = DefaultLocale
    /\ translations # <<>>
    /\ ~isLoading

\* ------------------------------------------------------------------- C11
\* The value of obj at path when every segment is present and the value is
\* defined, as a set: empty when the lookup does not match.
Defined(obj, path) == {getNestedValue(obj, path)} \ {Undef}

\* C11: caption(key, fallback) without params is the first of these that
\* exists: the defined value of key in the store's messages, the defined
\* value of key in the English document, the fallback argument when one is
\* passed (any string, the empty one included), the key itself.
C11_FallbackChainInOrder ==
    (captioned.op = "caption" /\ ~captioned.hasParams) =>
        captioned.result =
            (IF Defined(messages, captioned.key) # {}
             THEN getNestedValue(messages, captioned.key)
             ELSE IF Defined(englishFallbacks, captioned.key) # {}
             THEN getNestedValue(englishFallbacks, captioned.key)
             ELSE IF captioned.fallback # Undef
             THEN captioned.fallback
             ELSE Str(captioned.key))

\* ------------------------------------------------------------------- C12
\* A parameter value whose text has no brace and no dollar sign.
Plain(v) == \A i \in 1..Len(String(v)) : String(v)[i] \notin {"{", "}", "$"}

\* C12: after caption with params whose values are plain texts or numbers,
\* no placeholder {k} of a key k of params is left in the result, however
\* many times the template has it.
C12_EveryOccurrenceReplaced ==
    (/\ captioned.op = "caption"
     /\ captioned.hasParams
     /\ captioned.raw.type = "string"
     /\ \A i \in 1..Len(captioned.params) : Plain(captioned.params[i][2]))
    => \A i \in 1..Len(captioned.params) :
          indexOf(captioned.result.str, pattern(captioned.params[i][1])) = 0

\* ------------------------------------------------------------------- C13
\* The placeholder names of the templates.
Names == {<<"n">>, <<"m">>, <<"n", "o">>}

\* How many times p occurs in s.
Occurrences(s, p) ==
    Cardinality({i \in 1..(Len(s) - Len(p) + 1) : SubSeq(s, i, i + Len(p) - 1) = p})

ParamKeys(params) == {params[i][1] : i \in 1..Len(params)}

\* C13: caption without params returns the translation as it is; with
\* params, a translation that is not a string or has no placeholder of a key
\* of params is returned as it is, and every placeholder {x} whose name is
\* not a key of params is still in the result as many times as before.
C13_InterpolationLeavesTheRest ==
    captioned.op = "caption" =>
        /\ ~captioned.hasParams => captioned.result = captioned.raw
        /\ captioned.raw.type # "string" => captioned.result = captioned.raw
        /\ (captioned.hasParams /\ captioned.raw.type = "string") =>
              /\ (\A k \in ParamKeys(captioned.params) :
                     indexOf(captioned.raw.str, pattern(k)) = 0)
                 => captioned.result = captioned.raw
              /\ \A x \in Names \ ParamKeys(captioned.params) :
                     Occurrences(captioned.result.str, pattern(x))
                         >= Occurrences(captioned.raw.str, pattern(x))

\* caption("c.o", _, {n: "A"}) has returned "{no} {m}" untouched, and
\* caption("c.t", _, {n: "A"}) on the English document keeps {m}.
C13_Witness ==
    /\ captioned.op = "caption"
    /\ captioned.hasParams
    /\ ParamKeys(captioned.params) = {<<"n">>}
    /\ \/ /\ captioned.key = <<"c", ".", "o">>
          /\ captioned.result = Str(<<"{", "n", "o", "}", " ", "{", "m", "}">>)
       \/ /\ captioned.key = <<"c", ".", "t">>
          /\ captioned.source = "fallback"
          /\ Occurrences(captioned.result.str, pattern(<<"m">>)) = 1
          /\ captioned.result # captioned.raw

\* ------------------------------------------------------------------- C14
\* The step is a caption call.
CaptionStep == captioned'.op = "caption" /\ captioned'.made = captioned.made + 1

\* The change of a counter in the step.
Delta(counter) == translationStats'[counter] - translationStats[counter]

\* C14: each caption call adds one to exactly the counter of the source
\* its translation came from and changes nothing of the store; the same
\* call made twice in succession returns the same result from the same
\* source; the three counters always add up to the number of caption calls
\* made on the provider.
C14_OneCounterPerCall ==
    /\ [](translationStats.storeHits + translationStats.fallbackHits
              + translationStats.missingKeys = captioned.made)
    /\ [][CaptionStep =>
            /\ Delta("storeHits") = IF captioned'.source = "store" THEN 1 ELSE 0
            /\ Delta("fallbackHits") = IF captioned'.source = "fallback" THEN 1 ELSE 0
            /\ Delta("missingKeys") = IF captioned'.source = "missing" THEN 1 ELSE 0
            /\ captioned'.source = "store"
                  => captioned'.raw = getNestedValue(messages, captioned'.key)
            /\ captioned'.source = "fallback"
                  => captioned'.raw = getNestedValue(englishFallbacks, captioned'.key)
            /\ captioned'.source = "missing"
                  => captioned'.raw \in {captioned'.fallback, Str(captioned'.key)}
            /\ UNCHANGED <<currentLocale, messages, isLoading, userLanguage,
                           translations, calls, last, previous>>
            /\ (/\ captioned.op = "caption"
                /\ captioned'.key = captioned.key
                /\ captioned'.fallback = captioned.fallback
                /\ captioned'.params = captioned.params
                /\ captioned'.hasParams = captioned.hasParams)
               => /\ captioned'.result = captioned.result
                  /\ captioned'.source = captioned.source]_vars

\* Three caption calls have been made, one answered from each source.
C14_Witness ==
    /\ captioned.made = 3
    /\ translationStats = [storeHits |-> 1, fallbackHits |-> 1, missingKeys |-> 1]

\* ------------------------------------------------------------------- C15
\* C15: no call ever issues a network retrieval or a Local Cache request
\* for the default locale, loadLanguage('en') returns {} at once, and the
\* Local Cache never holds a document of the default locale.
C15_DefaultLocaleNeverLoaded ==
    /\ \A t \in Calls :
          calls[t].locale = DefaultLocale =>
             /\ calls[t].pc \in {"probe", "loaded"}
             /\ ~calls[t].fetched /\ calls[t].response = "none"
             /\ calls[t].cached = {} /\ calls[t].received = {}
             /\ calls[t].pc = "loaded" => calls[t].result = {EmptyDoc}
    /\ last.locale = DefaultLocale =>
          /\ ~last.fetched /\ last.response = "none"
          /\ last.cached = {} /\ last.received = {}
          /\ ~last.loadRaised
          /\ IsActivate(last) => last.result = {EmptyDoc}
    /\ \A d \in dbGet(translations) : LocaleOf(d) # DefaultLocale

C15_Witness ==
    /\ Quiescent
    /\ IsActivate(last) /\ last.locale = DefaultLocale
    /\ last.result = {EmptyDoc}
    /\ previous.op = "setAndLoadLanguage" /\ previous.locale = "es"
    /\ translations # <<>>
    /\ userLanguage = DefaultLocale

\* ------------------------------------------------------------------- C16
\* C16: the call entered by initializeLanguage is setAndLoadLanguage with
\* no section, for the persisted preference if there was one, else for the
\* device language if the platform is native, the probe succeeded and its
\* code is supported, else for the default locale.
C16_InitializePriority ==
    \A t \in Calls :
        (calls[t].init.called /\ IsActivate(calls[t])) =>
            LET i == calls[t].init IN
            /\ calls[t].section = Undefined
            /\ calls[t].locale =
                  IF i.persisted # Null THEN i.persisted
                  ELSE IF i.native /\ i.probe \in {"en", "es", "fr"} THEN i.probe
                  ELSE DefaultLocale

C16_Witness ==
    \E t \in Calls :
        /\ calls[t].init.called /\ IsActivate(calls[t])
        /\ calls[t].init.persisted = "es"
        /\ calls[t].init.native /\ calls[t].init.probe = "fr"
        /\ calls[t].locale = "es"
        /\ currentLocale = DefaultLocale
        /\ calls[t].pc = "loaded" /\ calls[t].cached # {}

\* ------------------------------------------------------------------- C17
\* The step by which languageDB.set of call t goes on after reading the
\* marker (its dbPromise was not rejected).
SetReadsMarker(t) ==
    /\ calls[t].pc = "set"
    /\ calls'[t].pc \in {"set_clear", "set_put"}

\* C17: the Local Cache holds at most one document, under the key
\* 'current', and it is a document as it was received for one locale; a
\* set(L, d) that finds the marker different from L clears the store before
\* the put of d, and only that put stores a document.
C17_SingleSlot ==
    /\ [](/\ DOMAIN translations \subseteq {"current"}
          /\ \A d \in dbGet(translations) :
                \E l \in supportedLocales : d \in RemoteDocs(l))
    /\ [][\A t \in Calls :
            /\ (SetReadsMarker(t) /\ getCurrentLanguage(userLanguage) # calls[t].locale)
                  => calls'[t].pc = "set_clear"
            /\ (calls[t].pc = "set_clear" /\ calls'[t].pc = "set_put")
                  => translations' = <<>>
            /\ (calls[t].pc = "set_clear" /\ calls'[t].pc # "set_put")
                  => translations' = translations
            /\ (calls[t].pc = "set_put" /\ translations' # translations)
                  => dbGet(translations') = calls[t].received]_vars

C17_Witness ==
    \E t \in Calls :
        /\ calls[t].pc = "set_put" /\ calls[t].locale = "fr"
        /\ getCurrentLanguage(userLanguage) = "es"
        /\ IsActivate(last) /\ last.locale = "es" /\ last.result = last.received
        /\ last.response = "ok"
        /\ translations = <<>>

\* ------------------------------------------------------------------- C18
\* C18: a loadLanguage call whose network retrieval succeeded returns the
\* retrieved document, also when the Local Cache write failed (the failing
\* read is the subject of C4 and is not held against the claim here).
C18_StorageFailureKeepsNetworkDocument ==
    \A t \in Calls :
        (calls[t].pc = "loaded" /\ calls[t].response = "ok")
            => calls[t].result = calls[t].received

\* ------------------------------------------------------------------- C19
\* Two setAndLoadLanguage calls that overlapped have both returned.
BothReturned == Quiescent /\ IsActivate(last) /\ IsActivate(previous)

\* C19: once two overlapping setAndLoadLanguage calls have both returned,
\* currentLocale, messages and the stored preference are those of the call
\* that returned last: its locale, and its document filtered for its
\* section.
C19_LastToCompleteWins ==
    BothReturned =>
        /\ currentLocale = last.locale
        /\ userLanguage = last.locale
        /\ messages = IF last.result = {} THEN EmptyDoc
                      ELSE filteredMessages(Loaded(last), last.section)

\* ------------------------------------------------------------------- C20
\* C20: hasTranslation(key) is true exactly when caption(key) takes its
\* translation from the store's messages, whatever the key and the messages,
\* empty strings among the values included.
C20_ExistsIffStoreHit ==
    captioned.op = "hasTranslation" =>
        (captioned.result.bool
            <=> sourceOf(messages, englishFallbacks, captioned.key) = "store")

\* ------------------------------------------------------------------- C21
\* The value a document holds under the segments, as a set: empty when a
\* segment is not a member of the tree reached so far (a leaf string has no
\* members).
RECURSIVE Under(_, _)
Under(tree, segments) ==
    IF segments = <<>> THEN {tree}
    ELSE IF tree.type = "object" /\ Head(segments) \in DOMAIN tree.props
         THEN Under(tree.props[Head(segments)], Tail(segments))
         ELSE {}

\* C21: caption answers from a document only when every segment of the key
\* is present in it, a key that goes on past a leaf string is not found,
\* and the result of caption is always a string, never a sub-tree, also for
\* a key that names a section.
C21_EverySegmentPresent ==
    captioned.op = "caption" =>
        /\ captioned.result.type = "string"
        /\ captioned.source = "store"
              => Under(messages, split(captioned.key)) # {}
        /\ captioned.source = "fallback"
              => Under(englishFallbacks, split(captioned.key)) # {}

\* ------------------------------------------------------------------- C22
\* The step is a captions call.
CaptionsStep == captioned'.op = "captions" /\ captioned' # captioned

\* How many of the keys are answered from the source.
AnsweredFrom(keys, source) ==
    Cardinality({i \in 1..Len(keys) : sourceOf(messages, englishFallbacks, keys[i]) = source})

\* C22: the object captions(keys) returns has exactly the listed keys as
\* members and holds for each what caption(key), without fallback and
\* params, returns; one caption call is made per element of keys, so each
\* counter grows by the number of elements answered from its source and the
\* three together by the length of keys.
C22_CaptionsIsCaptionPerKey ==
    /\ [](captioned.op = "captions" =>
            /\ captioned.result.type = "object"
            /\ DOMAIN captioned.result.props
                   = {captioned.keys[i] : i \in 1..Len(captioned.keys)}
            /\ \A k \in DOMAIN captioned.result.props :
                  captioned.result.props[k]
                      = (IF truthy(getNestedValue(messages, k))
                         THEN getNestedValue(messages, k)
                         ELSE IF truthy(getNestedValue(englishFallbacks, k))
                         THEN getNestedValue(englishFallbacks, k)
                         ELSE Str(k)))
    /\ [][CaptionsStep =>
            /\ Delta("storeHits") = AnsweredFrom(captioned'.keys, "store")
            /\ Delta("fallbackHits") = AnsweredFrom(captioned'.keys, "fallback")
            /\ Delta("missingKeys") = AnsweredFrom(captioned'.keys, "missing")
            /\ Delta("storeHits") + Delta("fallbackHits") + Delta("missingKeys")
                   = Len(captioned'.keys)
            /\ UNCHANGED <<currentLocale, messages, isLoading, userLanguage,
                           translations, calls, last, previous>>]_vars

\* captions(['u', 'u']) has returned an object with the one member u and
\* has counted two missing keys.
C22_Witness ==
    /\ captioned.op = "captions"
    /\ captioned.keys = <<<<"u">>, <<"u">>>>
    /\ DOMAIN captioned.result.props = {<<"u">>}
    /\ translationStats.missingKeys = 2

\* ------------------------------------------------------------------- C23
\* The step in which clearLanguageCache returns without rejecting.
ClearReturns ==
    /\ last'.op = "clearLanguageCache"
    /\ ~last'.rejected
    /\ \E t \in Calls : calls[t].pc = "clear" /\ calls'[t].pc = "idle"

\* The step in which a call that loads a language returns.
LoadReturns ==
    \E t \in Calls :
        /\ calls[t].op \in {"setAndLoadLanguage", "loadAdditionalSection"}
        /\ calls[t].pc \in {"loaded", "raised"}
        /\ calls'[t].pc = "idle"

\* C23: when clearLanguageCache returns, languageDB.get gives undefined
\* for every locale and currentLocale, messages and the stored preference
\* are as before; the next load of a locale other than 'en' fetches.
C23_ClearEmptiesCacheOnly ==
    [][/\ ClearReturns =>
            /\ \A locale \in supportedLocales : GetReturns(locale)' = {}
            /\ UNCHANGED <<currentLocale, messages, userLanguage>>
       /\ (/\ LoadReturns
           /\ last.op = "clearLanguageCache"
           /\ ~last.rejected
           /\ last'.locale # "en")
          => last'.fetched]_vars

\* ------------------------------------------------------------------- C24
\* The object store holds a document of the locale.
HoldsDocumentOf(locale) ==
    \E d \in dbGet(translations) : LocaleOf(d) = locale

\* The cache cannot serve the locale: no document of it is stored or the
\* marker names another locale.
CacheMisses(locale) ==
    ~HoldsDocumentOf(locale) \/ getCurrentLanguage(userLanguage) # locale

\* C24: a call of loadLanguage(locale) issues the fetch at most once, and
\* it issues it exactly when locale is not 'en' and the cache holds no
\* document of the locale or the marker does not match it.
C24_OneFetchIffCacheMisses ==
    [][\A t \in Calls :
          /\ (calls[t].pc # "fetch" /\ calls'[t].pc = "fetch") =>
                /\ calls[t].pc \in {"get", "get_read"}
                /\ calls[t].locale # "en"
                /\ CacheMisses(calls[t].locale)
          /\ (/\ calls[t].op \in {"setAndLoadLanguage", "loadAdditionalSection"}
              /\ calls[t].pc \in {"loaded", "raised"}
              /\ calls'[t].pc = "idle"
              /\ ~calls[t].fetched)
             => (calls[t].locale = "en" \/ ~CacheMisses(calls[t].locale))]_vars

\* ------------------------------------------------------------------- C25
\* C25: whatever localStorage holds when the page is loaded and whatever
\* calls are made, currentLocale is one of supportedLocales.
C25_CurrentLocaleSupported == currentLocale \in supportedLocales

\* ------------------------------------------------------------------- C30
\* C30: when no call is in flight and initializeLanguage has returned, the
\* stored preference ('en' when nothing is stored) is currentLocale.
C30_PreferenceIsCurrentLocale ==
    (Quiescent /\ last # NoCall) => getCurrentLanguage(userLanguage) = currentLocale

\* ------------------------------------------------------------------- C26
\* C26: every section in messages comes from the document of
\* currentLocale, however setAndLoadLanguage and loadAdditionalSection
\* calls interleave and whatever the fetches do.
C26_MessagesOfCurrentLocale ==
    \A s \in DOMAIN messages : messages[s][1] = currentLocale

\* ------------------------------------------------------------------- C29
\* A setAndLoadLanguage or loadAdditionalSection call is suspended inside
\* loadLanguage.
InLoader(t) ==
    /\ calls[t].op \in {"setAndLoadLanguage", "loadAdditionalSection"}
    /\ calls[t].pc \in {"get", "get_read", "fetch", "set", "set_clear", "set_put"}

\* C29: isLoading is true whenever a setAndLoadLanguage or
\* loadAdditionalSection call is suspended inside loadLanguage, so with two
\* overlapping calls it stays true until the last of them has returned.
C29_BusyWhileAnyCallInFlight ==
    (\E t \in Calls : InLoader(t)) => isLoading

\* ------------------------------------------------------------------- C27
\* C27: once two overlapping setAndLoadLanguage calls for two different
\* locales other than 'en' have both returned, the object store is empty
\* or holds the document of the locale the stored preference names.
C27_CacheFollowsPreference ==
    (/\ BothReturned
     /\ last.locale # "en"
     /\ previous.locale # "en"
     /\ last.locale # previous.locale)
    => \A d \in dbGet(translations) : LocaleOf(d) = getCurrentLanguage(userLanguage)

\* ------------------------------------------------------------------- C28
\* Every request eventually settles, with success or failure.
EveryRequestSettles == \A t \in Calls : WF_vars(Responds(t))

FetchFailed(c) == c.response \in NetworkFailures

RECURSIVE Reversed(_)
Reversed(s) == IF s = <<>> THEN <<>> ELSE Reversed(Tail(s)) \o <<Head(s)>>

\* C32: the result of caption with params is the same whatever the order
\* in which the entries of params are processed, so a parameter value that
\* holds the placeholder of another parameter is not substituted in turn.
C32_OrderOfParamsIrrelevant ==
    (captioned.op = "caption" /\ captioned.hasParams /\ captioned.raw.type = "string")
    => captioned.result.str = interpolate(captioned.raw.str, Reversed(captioned.params))

====
